---- MODULE Spec2Model ----
(***************************************************************************)
(* LegoWorld V3 (Tizen TV application), src/tizen/js/main.js:              *)
(* the scene/view navigation state machine and the photo gallery that is   *)
(* synchronised with a backend by full fetches (loadPhotos) and by a       *)
(* periodic poll of /api/state (startPolling).                             *)
(*                                                                         *)
(* JavaScript runs every handler to completion on one thread; a handler    *)
(* is suspended only at an await.  Each action below is one such           *)
(* run-to-completion piece: a key handler, the part of an async function   *)
(* before its fetch, the part after it, a timer callback.                  *)
(***************************************************************************)
EXTENDS Integers, Sequences, FiniteSets, TLC

VARIABLES
    currentScene,       \* main.js:20
    currentView,        \* main.js:21
    photos,             \* main.js:22
    lastPhotoCount,     \* main.js:23
    focusedPhotoIndex,  \* main.js:24
    sceneIndex,         \* main.js:43
    indicatorShown,     \* newPhotoIndicator does not carry the class 'hidden'
    hideTimers,         \* pending setTimeout callbacks of showNewPhotoIndicator
    photoReqs,          \* /api/photos fetches in flight, in request order
    pollReqs,           \* /api/state fetches in flight, in request order
    backendPhotos,      \* the backend's photo collection
    navRun,             \* history: DOWN keys pressed in a row in the dashboard
                        \*   or the gallery, up to Len(sceneOrder)
    navStart,           \* history: sceneIndex when that run of DOWN keys began
    backFrom,           \* history: the view the last key, a BACK, was pressed in
    keyTick,            \* history: flips at every command of the navigation
    polledUp,           \* history: a poll completing in the dashboard raised
                        \*   lastPhotoCount and no refresh was applied since
    lastFetch,          \* history: how the last fetch to complete ended:
                        \*   "failed", "appliedAway" (a refresh applied
                        \*   outside the gallery), "pollReload" (a poll that
                        \*   called loadPhotos), "none" for any other
    refreshRun          \* history: 1 = the last change of the gallery or of the
                        \*   backend was a successful refresh; 2 = and that
                        \*   refresh fetched again what the one before it had
                        \*   fetched, with the indicator hidden; 0 otherwise

progVars == <<currentScene, currentView, photos, lastPhotoCount,
              focusedPhotoIndex, sceneIndex, indicatorShown, hideTimers,
              photoReqs>>
navHist == <<navRun, navStart, backFrom, keyTick>>
galHist == <<polledUp, lastFetch, refreshRun>>
histVars == <<navRun, navStart, backFrom, keyTick, polledUp, lastFetch,
              refreshRun>>
vars == <<currentScene, currentView, photos, lastPhotoCount,
          focusedPhotoIndex, sceneIndex, indicatorShown, hideTimers,
          photoReqs, pollReqs, backendPhotos, navRun, navStart, backFrom,
          keyTick, polledUp, lastFetch, refreshRun>>

----------------------------------------------------------------------------
(* Bounds of the model *)

MaxPhotos == 2
MaxInFlight == 2
MaxPolls == 2
MaxTimers == 2

----------------------------------------------------------------------------
(* Scene catalogue *)

sceneOrder ==
    <<"SmartBrick1", "SmartBrick2", "City", "Firetruck", "Universe", "Space",
      "Game", "MyPhotos">>

\* sceneAssets[name].video, as "is there a video" (null is falsy)
sceneAssets ==
    [name \in {sceneOrder[i] : i \in 1..Len(sceneOrder)} |->
        [video |-> name \in {"City", "Firetruck", "Universe", "Space"}]]

ViewKinds == {"dashboard", "video", "photos", "fullscreen"}

\* key codes of the keydown handler
KEY_UP == 38
KEY_DOWN == 40
KEY_ENTER == 13
KEY_BACK == 10009
KEY_ESC == 27
KEY_LEFT == 37
KEY_RIGHT == 39

\* what a fetch can settle to: a 2xx answer with a JSON body, a non-2xx
\* answer, a rejected fetch, or a 2xx answer whose body is not JSON
FetchFailures == {"notok", "neterr", "nonjson"}

----------------------------------------------------------------------------
(* The client's state as one value, so that the functions of main.js can   *)
(* be composed in the order the code calls them.                           *)

Cur ==
    [currentScene |-> currentScene, currentView |-> currentView,
     photos |-> photos, lastPhotoCount |-> lastPhotoCount,
     focusedPhotoIndex |-> focusedPhotoIndex, sceneIndex |-> sceneIndex,
     indicatorShown |-> indicatorShown, hideTimers |-> hideTimers,
     photoReqs |-> photoReqs]

Apply(s) ==
    /\ Len(s.photoReqs) <= MaxInFlight
    /\ s.hideTimers <= MaxTimers
    /\ currentScene' = s.currentScene
    /\ currentView' = s.currentView
    /\ photos' = s.photos
    /\ lastPhotoCount' = s.lastPhotoCount
    /\ focusedPhotoIndex' = s.focusedPhotoIndex
    /\ sceneIndex' = s.sceneIndex
    /\ indicatorShown' = s.indicatorShown
    /\ hideTimers' = s.hideTimers
    /\ photoReqs' = s.photoReqs

RemoveAt(q, i) == [j \in 1..(Len(q) - 1) |-> IF j < i THEN q[j] ELSE q[j + 1]]

----------------------------------------------------------------------------
(* Functions of main.js *)

\* showNewPhotoIndicator: show it, and schedule one more hide callback
showNewPhotoIndicator(s) ==
    [s EXCEPT !.indicatorShown = TRUE, !.hideTimers = @ + 1]

\* loadPhotos up to its first await: the fetch of /api/photos is issued
loadPhotos(s) ==
    [s EXCEPT !.photoReqs = Append(@, [st |-> "sent", data |-> <<>>])]

\* loadPhotos from the point where the fetch has settled as r
loadPhotosResumeNoCount(s, r) ==
    IF r.st = "ok"
    THEN LET s1 == IF Len(r.data) > s.lastPhotoCount
                   THEN showNewPhotoIndicator(s) ELSE s
         IN  [s1 EXCEPT !.photos = r.data]
    ELSE s

loadPhotosResumeGeq(s, r) ==
    IF r.st = "ok"
    THEN LET s1 == IF Len(r.data) >= s.lastPhotoCount
                   THEN showNewPhotoIndicator(s) ELSE s
         IN  [s1 EXCEPT !.lastPhotoCount = Len(r.data), !.photos = r.data]
    ELSE s

loadPhotosResumeResetsFocus(s, r) ==
    IF r.st = "ok"
    THEN LET s1 == IF Len(r.data) > s.lastPhotoCount
                   THEN showNewPhotoIndicator(s) ELSE s
         IN  [s1 EXCEPT !.lastPhotoCount = Len(r.data), !.photos = r.data,
                        !.focusedPhotoIndex = 0, !.currentView = "photos"]
    ELSE s

loadPhotosResumeTorn(s, r) ==
    IF r.st = "ok"
    THEN LET s1 == IF Len(r.data) > s.lastPhotoCount
                   THEN showNewPhotoIndicator(s) ELSE s
         IN  [s1 EXCEPT !.lastPhotoCount = Len(r.data)]
    ELSE s

loadPhotosResumeClearsOnError(s, r) ==
    IF r.st = "ok"
    THEN LET s1 == IF Len(r.data) > s.lastPhotoCount
                   THEN showNewPhotoIndicator(s) ELSE s
         IN  [s1 EXCEPT !.lastPhotoCount = Len(r.data), !.photos = r.data]
    ELSE [s EXCEPT !.lastPhotoCount = 0, !.photos = <<>>]

loadPhotosResume(s, r) ==
    IF r.st = "ok"
    THEN LET s1 == IF Len(r.data) > s.lastPhotoCount
                   THEN showNewPhotoIndicator(s) ELSE s
         IN  [s1 EXCEPT !.lastPhotoCount = Len(r.data), !.photos = r.data]
    ELSE s

showPhotoGallery(s) ==
    loadPhotos([s EXCEPT !.currentView = "photos", !.focusedPhotoIndex = 0])

hidePhotoGallery(s) ==
    IF s.currentView # "photos" THEN s
    ELSE [s EXCEPT !.currentView = "dashboard"]

updateSceneNoGallery(s, sceneName) ==
    [s EXCEPT !.currentScene = sceneName]

updateScene(s, sceneName) ==
    LET s1 == [s EXCEPT !.currentScene = sceneName]
    IN  IF sceneName = "MyPhotos" THEN showPhotoGallery(s1) ELSE s1

navigateUp(s) ==
    IF s.currentView = "dashboard" \/ s.currentView = "photos"
    THEN LET s1 == IF s.currentView = "photos" THEN hidePhotoGallery(s) ELSE s
             idx == (s1.sceneIndex - 1 + Len(sceneOrder)) % Len(sceneOrder)
         IN  updateScene([s1 EXCEPT !.sceneIndex = idx], sceneOrder[idx + 1])
    ELSE s

navigateDownKeepsView(s) ==
    IF s.currentView = "dashboard" \/ s.currentView = "photos"
    THEN LET idx == (s.sceneIndex + 1) % Len(sceneOrder)
         IN  updateScene([s EXCEPT !.sceneIndex = idx], sceneOrder[idx + 1])
    ELSE s

navigateDownNoWrap(s) ==
    IF s.currentView = "dashboard" \/ s.currentView = "photos"
    THEN LET s1 == IF s.currentView = "photos" THEN hidePhotoGallery(s) ELSE s
             idx == IF s1.sceneIndex + 1 < Len(sceneOrder)
                    THEN s1.sceneIndex + 1 ELSE s1.sceneIndex
         IN  updateScene([s1 EXCEPT !.sceneIndex = idx], sceneOrder[idx + 1])
    ELSE s

navigateDown(s) ==
    IF s.currentView = "dashboard" \/ s.currentView = "photos"
    THEN LET s1 == IF s.currentView = "photos" THEN hidePhotoGallery(s) ELSE s
             idx == (s1.sceneIndex + 1) % Len(sceneOrder)
         IN  updateScene([s1 EXCEPT !.sceneIndex = idx], sceneOrder[idx + 1])
    ELSE s

playVideoNoView(s) == s

playVideo(s) ==
    IF ~sceneAssets[s.currentScene].video THEN s
    ELSE [s EXCEPT !.currentView = "video"]

stopVideo(s) == [s EXCEPT !.currentView = "dashboard"]

showFullscreenPhoto(s, hasPhoto) ==
    IF ~hasPhoto THEN s ELSE [s EXCEPT !.currentView = "fullscreen"]

hideFullscreenPhoto(s) == [s EXCEPT !.currentView = "photos"]

handleEnterOpensPhoto(s) ==
    IF s.currentView = "dashboard"
    THEN IF sceneAssets[s.currentScene].video THEN playVideo(s)
         ELSE IF s.currentScene = "MyPhotos" THEN showPhotoGallery(s)
         ELSE s
    ELSE IF s.currentView = "photos"
         THEN showFullscreenPhoto(s, s.focusedPhotoIndex < Len(s.photos))
    ELSE s

handleEnter(s) ==
    IF s.currentView = "dashboard"
    THEN IF sceneAssets[s.currentScene].video THEN playVideo(s)
         ELSE IF s.currentScene = "MyPhotos" THEN showPhotoGallery(s)
         ELSE s
    ELSE IF s.currentView = "photos" THEN loadPhotos(s)
    ELSE s

handleBackFullscreenToDashboard(s) ==
    IF s.currentView = "video" THEN stopVideo(s)
    ELSE IF s.currentView = "photos" THEN hidePhotoGallery(s)
    ELSE IF s.currentView = "fullscreen" THEN stopVideo(s)
    ELSE s

handleBack(s) ==
    IF s.currentView = "video" THEN stopVideo(s)
    ELSE IF s.currentView = "photos" THEN hidePhotoGallery(s)
    ELSE IF s.currentView = "fullscreen" THEN hideFullscreenPhoto(s)
    ELSE s

pollResumeAlwaysCounts(s, r) ==
    IF r.st = "ok"
    THEN IF r.data > s.lastPhotoCount /\ s.currentView = "photos"
         THEN loadPhotos([s EXCEPT !.lastPhotoCount = r.data])
         ELSE IF r.data > s.lastPhotoCount
              THEN [s EXCEPT !.lastPhotoCount = r.data]
              ELSE s
    ELSE s

\* the setInterval callback of startPolling from the point where its fetch
\* has settled as r
pollResume(s, r) ==
    IF r.st = "ok"
    THEN IF r.data > s.lastPhotoCount /\ s.currentView = "photos"
         THEN loadPhotos(s)
         ELSE IF r.data > s.lastPhotoCount
              THEN [s EXCEPT !.lastPhotoCount = r.data]
              ELSE s
    ELSE s

\* the keydown listener
keydown(s, keyCode) ==
    CASE keyCode = KEY_UP -> navigateUp(s)
      [] keyCode = KEY_DOWN -> navigateDown(s)
      [] keyCode = KEY_ENTER -> handleEnter(s)
      [] keyCode \in {KEY_BACK, KEY_ESC} -> handleBack(s)
      [] keyCode = KEY_LEFT ->
            IF s.currentView = "photos" /\ s.focusedPhotoIndex > 0
            THEN [s EXCEPT !.focusedPhotoIndex = @ - 1] ELSE s
      [] keyCode = KEY_RIGHT ->
            IF s.currentView = "photos"
               /\ s.focusedPhotoIndex < Len(s.photos) - 1
            THEN [s EXCEPT !.focusedPhotoIndex = @ + 1] ELSE s
      [] OTHER -> s

----------------------------------------------------------------------------
(* Initial state: the declarations of main.js:20-24, 43, then              *)
(* updateScene(sceneOrder[0]) and startPolling().                          *)

Init ==
    /\ currentScene = sceneOrder[1]
    /\ currentView = "dashboard"
    /\ photos = <<>>
    /\ lastPhotoCount = 0
    /\ focusedPhotoIndex = 0
    /\ sceneIndex = 0
    /\ indicatorShown = FALSE
    /\ hideTimers = 0
    /\ photoReqs = <<>>
    /\ pollReqs = <<>>
    /\ backendPhotos \in {[i \in 1..k |-> i] : k \in 0..MaxPhotos}
    /\ navRun = 0
    /\ navStart = 0
    /\ backFrom = "none"
    /\ keyTick = FALSE
    /\ polledUp = FALSE
    /\ lastFetch = "none"
    /\ refreshRun = 0

----------------------------------------------------------------------------
(* Actions *)

\* the keydown listener runs for one key
Key(keyCode) ==
    /\ Apply(keydown(Cur, keyCode))
    /\ UNCHANGED <<pollReqs, backendPhotos, galHist>>

KeyUp == Key(KEY_UP) /\ UNCHANGED navHist
KeyDown == Key(KEY_DOWN) /\ UNCHANGED navHist
KeyEnter == Key(KEY_ENTER) /\ UNCHANGED navHist
KeyBack == (\E k \in {KEY_BACK, KEY_ESC} : Key(k)) /\ UNCHANGED navHist
KeyLeft == Key(KEY_LEFT) /\ UNCHANGED navHist
KeyRight == Key(KEY_RIGHT) /\ UNCHANGED navHist

\* videoElement.onended = stopVideo
VideoEnded ==
    /\ currentView = "video"
    /\ Apply(stopVideo(Cur))
    /\ UNCHANGED <<pollReqs, backendPhotos, histVars>>

\* the callback of showNewPhotoIndicator's setTimeout
HideTimerFire ==
    /\ hideTimers > 0
    /\ Apply([Cur EXCEPT !.indicatorShown = FALSE, !.hideTimers = @ - 1])
    /\ UNCHANGED <<pollReqs, backendPhotos, histVars>>

\* a mobile client uploads a photo
BackendAdd ==
    /\ Len(backendPhotos) < MaxPhotos
    /\ backendPhotos' = Append(backendPhotos, Len(backendPhotos) + 1)
    /\ refreshRun' = 0
    /\ UNCHANGED <<progVars, pollReqs, navHist, polledUp, lastFetch>>

\* the fetch of /api/photos number i is answered 2xx with the collection
PhotosFetchSettle(i) ==
    /\ photoReqs[i].st = "sent"
    /\ photoReqs' = [photoReqs EXCEPT ![i] = [st |-> "ok", data |-> backendPhotos]]
    /\ UNCHANGED <<currentScene, currentView, photos, lastPhotoCount,
                   focusedPhotoIndex, sceneIndex, indicatorShown, hideTimers,
                   pollReqs, backendPhotos, histVars>>

\* loadPhotos number i resumes after its awaits with the fetched collection
LoadPhotosResumed(i) ==
    /\ photoReqs[i].st = "ok"
    /\ Apply(loadPhotosResume([Cur EXCEPT !.photoReqs = RemoveAt(@, i)],
                              photoReqs[i]))
    /\ polledUp' = FALSE
    /\ refreshRun' = IF refreshRun > 0 /\ photoReqs[i].data = photos
                         /\ ~indicatorShown
                      THEN 2 ELSE 1
    /\ UNCHANGED <<pollReqs, backendPhotos, navHist>>

LoadPhotosComplete(i) == LoadPhotosResumed(i) /\ UNCHANGED lastFetch

\* the fetch of loadPhotos number i fails, and loadPhotos resumes with that
LoadPhotosFailed(i) ==
    /\ photoReqs[i].st = "sent"
    /\ \E o \in FetchFailures :
          Apply(loadPhotosResume([Cur EXCEPT !.photoReqs = RemoveAt(@, i)],
                                 [st |-> o, data |-> <<>>]))
    /\ UNCHANGED <<pollReqs, backendPhotos, navHist, polledUp, refreshRun>>

LoadPhotosFail(i) == LoadPhotosFailed(i) /\ UNCHANGED lastFetch

\* the interval of startPolling elapses: the callback issues its fetch
PollTick ==
    /\ Len(pollReqs) < MaxPolls
    /\ pollReqs' = Append(pollReqs, [st |-> "sent", data |-> 0])
    /\ UNCHANGED <<progVars, backendPhotos, histVars>>

\* the fetch of /api/state number i is answered 2xx with the total count
PollFetchSettle(i) ==
    /\ pollReqs[i].st = "sent"
    /\ pollReqs' = [pollReqs EXCEPT ![i] =
                       [st |-> "ok", data |-> Len(backendPhotos)]]
    /\ UNCHANGED <<progVars, backendPhotos, histVars>>

\* the poll callback number i resumes after its awaits with the count
PollResumed(i) ==
    /\ pollReqs[i].st = "ok"
    /\ Apply(pollResume(Cur, pollReqs[i]))
    /\ pollReqs' = RemoveAt(pollReqs, i)
    /\ polledUp' = IF lastPhotoCount' # lastPhotoCount
                   THEN currentView = "dashboard" ELSE polledUp
    /\ refreshRun' = IF lastPhotoCount' # lastPhotoCount THEN 0 ELSE refreshRun
    /\ UNCHANGED <<backendPhotos, navHist>>

PollComplete(i) == PollResumed(i) /\ UNCHANGED lastFetch

\* the fetch of poll callback number i fails, and the callback resumes
PollFailed(i) ==
    /\ pollReqs[i].st = "sent"
    /\ \E o \in FetchFailures :
          Apply(pollResume(Cur, [st |-> o, data |-> 0]))
    /\ pollReqs' = RemoveAt(pollReqs, i)
    /\ UNCHANGED <<backendPhotos, navHist, polledUp, refreshRun>>

PollFail(i) == PollFailed(i) /\ UNCHANGED lastFetch

Next ==
    \/ KeyUp
    \/ KeyDown
    \/ KeyEnter
    \/ KeyBack
    \/ KeyLeft
    \/ KeyRight
    \/ VideoEnded
    \/ HideTimerFire
    \/ BackendAdd
    \/ \E i \in 1..Len(photoReqs) : PhotosFetchSettle(i)
    \/ \E i \in 1..Len(photoReqs) : LoadPhotosComplete(i)
    \/ \E i \in 1..Len(photoReqs) : LoadPhotosFail(i)
    \/ PollTick
    \/ \E i \in 1..Len(pollReqs) : PollFetchSettle(i)
    \/ \E i \in 1..Len(pollReqs) : PollComplete(i)
    \/ \E i \in 1..Len(pollReqs) : PollFail(i)

\* The application against a growing backend: keys, timers, polls, fetches.
Spec == Init /\ [][Next]_vars

----------------------------------------------------------------------------
(* The same application, with the history of how each fetch ended.         *)

LoggedLoadPhotosComplete(i) ==
    /\ LoadPhotosResumed(i)
    /\ lastFetch' = IF currentView = "photos" THEN "none" ELSE "appliedAway"

LoggedLoadPhotosFail(i) == LoadPhotosFailed(i) /\ lastFetch' = "failed"

LoggedPollComplete(i) ==
    /\ PollResumed(i)
    /\ lastFetch' = IF photoReqs' # photoReqs THEN "pollReload" ELSE "none"

LoggedPollFail(i) == PollFailed(i) /\ lastFetch' = "failed"

NextSync ==
    \/ KeyUp
    \/ KeyDown
    \/ KeyEnter
    \/ KeyBack
    \/ KeyLeft
    \/ KeyRight
    \/ VideoEnded
    \/ HideTimerFire
    \/ BackendAdd
    \/ \E i \in 1..Len(photoReqs) : PhotosFetchSettle(i)
    \/ \E i \in 1..Len(photoReqs) : LoggedLoadPhotosComplete(i)
    \/ \E i \in 1..Len(photoReqs) : LoggedLoadPhotosFail(i)
    \/ PollTick
    \/ \E i \in 1..Len(pollReqs) : PollFetchSettle(i)
    \/ \E i \in 1..Len(pollReqs) : LoggedPollComplete(i)
    \/ \E i \in 1..Len(pollReqs) : LoggedPollFail(i)

SpecSync == Init /\ [][NextSync]_vars

----------------------------------------------------------------------------
(* The navigation state machine under its commands, with the history of    *)
(* the keys pressed.  showFullscreenPhoto is the entry into the fullscreen *)
(* view; it is taken here as an operation of the view in its own right.    *)

\* the key is a DOWN pressed where navigateDown accepts it
MoveNextTaken(keyCode) ==
    keyCode = KEY_DOWN /\ currentView \in {"dashboard", "photos"}

NavKey(keyCode) ==
    /\ Key(keyCode)
    /\ navRun' = IF ~MoveNextTaken(keyCode) THEN 0
                 ELSE IF navRun = Len(sceneOrder) THEN 1 ELSE navRun + 1
    /\ navStart' = IF ~MoveNextTaken(keyCode) THEN 0
                   ELSE IF navRun \in {0, Len(sceneOrder)} THEN sceneIndex
                   ELSE navStart
    /\ backFrom' = IF keyCode \in {KEY_BACK, KEY_ESC} THEN currentView
                   ELSE "none"
    /\ keyTick' = ~keyTick

NavKeyUp == NavKey(KEY_UP)
NavKeyDown == NavKey(KEY_DOWN)
NavKeyEnter == NavKey(KEY_ENTER)
NavKeyBack == \E k \in {KEY_BACK, KEY_ESC} : NavKey(k)
NavKeyLeft == NavKey(KEY_LEFT)
NavKeyRight == NavKey(KEY_RIGHT)

\* showFullscreenPhoto(photos[index]) from the gallery
EnterPhotoView(index) ==
    /\ currentView = "photos"
    /\ Apply(showFullscreenPhoto(Cur, index < Len(photos)))
    /\ navRun' = 0
    /\ navStart' = 0
    /\ backFrom' = "none"
    /\ keyTick' = ~keyTick
    /\ UNCHANGED <<pollReqs, backendPhotos, galHist>>

NextNav ==
    \/ NavKeyUp
    \/ NavKeyDown
    \/ NavKeyEnter
    \/ NavKeyBack
    \/ NavKeyLeft
    \/ NavKeyRight
    \/ \E index \in 0..MaxPhotos : EnterPhotoView(index)
    \/ VideoEnded
    \/ HideTimerFire
    \/ \E i \in 1..Len(photoReqs) : PhotosFetchSettle(i)
    \/ \E i \in 1..Len(photoReqs) : LoggedLoadPhotosComplete(i)
    \/ \E i \in 1..Len(photoReqs) : LoggedLoadPhotosFail(i)

SpecNav == Init /\ [][NextNav]_vars

----------------------------------------------------------------------------
(* Properties *)

InFlightPolls == {i \in 1..Len(pollReqs) : pollReqs[i].st = "sent"}

\* C1: against a backend whose collection only grows, lastPhotoCount never
\* decreases, whatever the order in which polls and refreshes complete.
C1_CountNeverDecreases == [][lastPhotoCount' >= lastPhotoCount]_vars

\* C2: once a poll completing in the dashboard has raised lastPhotoCount above
\* the number of photos held, a refresh that completes in the Photos view with
\* that larger collection leaves photos at the new length and the NEW
\* indicator shown.
C2_RefreshAfterPollShowsIndicator ==
    [][\A i \in 1..Len(photoReqs) :
          (/\ LoadPhotosComplete(i)
           /\ polledUp
           /\ currentView = "photos"
           /\ Len(photos) < lastPhotoCount
           /\ Len(photoReqs[i].data) = lastPhotoCount)
          => (Len(photos') = lastPhotoCount /\ indicatorShown')]_vars

\* C3: at every moment at most one fetch of /api/state is in flight.
C3_PollsNeverPipeline == Cardinality(InFlightPolls) <= 1

\* C4: focusedPhotoIndex is within [0, photos.length - 1] when there are
\* photos, and 0 when there are none.
C4_FocusInRange ==
    IF Len(photos) > 0
    THEN focusedPhotoIndex \in 0..(Len(photos) - 1)
    ELSE focusedPhotoIndex = 0

C6_SceneIndexWraps ==
    /\ sceneIndex \in 0..(Len(sceneOrder) - 1)
    /\ navRun = Len(sceneOrder)
         => (sceneIndex = navStart /\ currentScene = sceneOrder[navStart + 1])

\* a full round of DOWN keys that began at City
C6_FullRound ==
    /\ navRun = Len(sceneOrder)
    /\ navStart = 2
    /\ sceneIndex = 2

C8_EnterPlaysVideo ==
    [][(NavKeyEnter /\ currentView = "dashboard"
          /\ sceneAssets[currentScene].video)
       => /\ currentView' = "video"
          /\ sceneIndex' = sceneIndex
          /\ currentScene' = currentScene]_vars

\* the video of Space is playing
C8_VideoPlaying ==
    /\ navRun = 0
    /\ backFrom = "none"
    /\ currentView = "video"
    /\ currentScene = "Space"
    /\ sceneIndex = 5

\* C9: a successful refresh replaces photos by the fetched collection, sets
\* lastPhotoCount to its length, and triggers the NEW indicator exactly when
\* that length exceeds the lastPhotoCount of the moment it is applied.
C9_RefreshApplies ==
    [][\A i \in 1..Len(photoReqs) :
          LoadPhotosComplete(i) =>
            /\ photos' = photoReqs[i].data
            /\ lastPhotoCount' = Len(photoReqs[i].data)
            /\ IF Len(photoReqs[i].data) > lastPhotoCount
               THEN indicatorShown' /\ hideTimers' = hideTimers + 1
               ELSE indicatorShown' = indicatorShown /\ hideTimers' = hideTimers
      ]_vars

\* a refresh has just brought two photos and triggered the indicator
C9_RefreshTriggered ==
    /\ refreshRun = 1
    /\ Len(photos) = 2
    /\ lastPhotoCount = 2
    /\ indicatorShown
    /\ hideTimers = 1

\* C10: a successful refresh that follows a successful refresh, fetches the
\* same collection and finds the indicator hidden leaves photos,
\* lastPhotoCount and the indicator as they were.
C10_RefreshIdempotent ==
    [][\A i \in 1..Len(photoReqs) :
          (/\ LoadPhotosComplete(i)
           /\ refreshRun > 0
           /\ photoReqs[i].data = photos
           /\ ~indicatorShown)
          => /\ photos' = photos
             /\ lastPhotoCount' = lastPhotoCount
             /\ indicatorShown' = indicatorShown
             /\ hideTimers' = hideTimers]_vars

\* the second of two such refreshes has been applied
C10_SecondRefreshApplied ==
    /\ refreshRun = 2
    /\ Len(photos) = 2
    /\ ~indicatorShown

\* C11: a fetch of /api/photos or of /api/state that fails (rejected, not
\* 2xx, or 2xx with a body that is not JSON) leaves photos, lastPhotoCount,
\* the indicator and its timers, currentView, currentScene, sceneIndex and
\* focusedPhotoIndex as they were.
C11_FailedFetchChangesNothing ==
    [][((\E i \in 1..Len(photoReqs) : LoggedLoadPhotosFail(i))
        \/ (\E i \in 1..Len(pollReqs) : LoggedPollFail(i)))
       => UNCHANGED <<photos, lastPhotoCount, indicatorShown, hideTimers,
                      currentView, currentScene, sceneIndex,
                      focusedPhotoIndex>>]_vars

\* a fetch has just failed while the gallery shows photos, one of them focused
C11_FetchFailed ==
    /\ lastFetch = "failed"
    /\ currentView = "photos"
    /\ Len(photos) = 2
    /\ focusedPhotoIndex = 1

\* C12: a refresh is applied whole: the step in which a refresh changes
\* lastPhotoCount or triggers the indicator is the step that replaces photos
\* by the collection it fetched, so that no handler runs in between.
C12_RefreshAppliedWhole ==
    [][(\/ hideTimers' > hideTimers
        \/ (lastPhotoCount' # lastPhotoCount /\ pollReqs' = pollReqs))
       => /\ lastPhotoCount' = Len(photos')
          /\ \E i \in 1..Len(photoReqs) :
                /\ photoReqs[i].st = "ok"
                /\ photos' = photoReqs[i].data
                /\ photoReqs' = RemoveAt(photoReqs, i)]_vars

\* the gallery right after a refresh that brought its first photo
C12_FirstPhotoApplied ==
    /\ refreshRun = 1
    /\ currentView = "photos"
    /\ Len(photos) = 1
    /\ lastPhotoCount = 1
    /\ indicatorShown
    /\ hideTimers = 1

\* C13: while the window of a trigger of the NEW indicator is still pending,
\* the indicator is shown: the expiry of an earlier trigger does not hide it.
C13_ShownWhileWindowPending == hideTimers > 0 => indicatorShown

\* C14: a refresh whose answer arrives after the user has left the Photos
\* view is still applied to photos and lastPhotoCount, and applying it changes
\* none of currentView, currentScene, sceneIndex and focusedPhotoIndex.
C14_LateRefreshStillApplied ==
    [][\A i \in 1..Len(photoReqs) :
          (LoggedLoadPhotosComplete(i) /\ currentView # "photos")
          => /\ photos' = photoReqs[i].data
             /\ lastPhotoCount' = Len(photoReqs[i].data)
             /\ UNCHANGED <<currentView, currentScene, sceneIndex,
                            focusedPhotoIndex>>]_vars

\* the last key was a BACK out of the gallery, and since then a refresh has
\* brought two photos
C14_AppliedAfterDismiss ==
    /\ lastFetch = "appliedAway"
    /\ backFrom = "photos"
    /\ currentView = "dashboard"
    /\ Len(photos) = 2
    /\ lastPhotoCount = 2

\* C15 (as claimed): in every view a successful poll that reports more than
\* lastPhotoCount sets lastPhotoCount to what it reports; the poll itself
\* neither changes photos nor shows the indicator, and a poll that reports no
\* more than lastPhotoCount changes nothing.
C15_PollSetsCountInEveryView ==
    [][\A i \in 1..Len(pollReqs) :
          LoggedPollComplete(i) =>
            /\ UNCHANGED <<photos, indicatorShown, hideTimers>>
            /\ IF pollReqs[i].data > lastPhotoCount
               THEN lastPhotoCount' = pollReqs[i].data
               ELSE UNCHANGED progVars]_vars

\* C15 (amended): outside the Photos view such a poll sets lastPhotoCount to
\* what it reports; in the Photos view it leaves lastPhotoCount alone and
\* issues a refresh; in no view does the poll itself change photos or show
\* the indicator, and a poll that reports no more than lastPhotoCount changes
\* nothing.
C15_PollCountsOrReloads ==
    [][\A i \in 1..Len(pollReqs) :
          LoggedPollComplete(i) =>
            /\ UNCHANGED <<photos, indicatorShown, hideTimers>>
            /\ IF pollReqs[i].data > lastPhotoCount
               THEN IF currentView = "photos"
                    THEN /\ lastPhotoCount' = lastPhotoCount
                         /\ photoReqs' = Append(photoReqs,
                                            [st |-> "sent", data |-> <<>>])
                    ELSE /\ lastPhotoCount' = pollReqs[i].data
                         /\ photoReqs' = photoReqs
               ELSE UNCHANGED progVars]_vars

\* a poll has just found a second photo while the gallery shows one
C15_PollReloadedInGallery ==
    /\ lastFetch = "pollReload"
    /\ currentView = "photos"
    /\ Len(photos) = 1
    /\ lastPhotoCount = 1
    /\ Len(backendPhotos) = 2
    /\ photoReqs = <<[st |-> "sent", data |-> <<>>]>>

\* C16: LEFT and RIGHT move focusedPhotoIndex by exactly one when the view is
\* Photos and the result is within [0, photos.length - 1]; otherwise (at
\* either end, on an empty gallery, where the index is 0, or in another view)
\* they leave it as it is.
C16_FocusMovesWithinRange ==
    [][/\ KeyLeft =>
            focusedPhotoIndex' =
                IF /\ currentView = "photos"
                   /\ focusedPhotoIndex - 1 \in 0..(Len(photos) - 1)
                THEN focusedPhotoIndex - 1 ELSE focusedPhotoIndex
       /\ KeyRight =>
            focusedPhotoIndex' =
                IF /\ currentView = "photos"
                   /\ focusedPhotoIndex + 1 \in 0..(Len(photos) - 1)
                THEN focusedPhotoIndex + 1 ELSE focusedPhotoIndex
       /\ ((KeyLeft \/ KeyRight) /\ currentView = "photos" /\ photos = <<>>)
            => (focusedPhotoIndex = 0 /\ focusedPhotoIndex' = 0)]_vars

\* C17: lastPhotoCount is never below the number of photos held.
C17_CountCoversPhotos == lastPhotoCount >= Len(photos)

\* a poll has raised the count above the photos held
C17_CountAhead ==
    /\ Len(photos) = 1
    /\ lastPhotoCount = 2
    /\ Len(backendPhotos) = 2

\* C18: the Photos view is shown only on the gallery scene, and the Video
\* view only on a scene that has a video.
C18_ViewMatchesScene ==
    /\ currentView = "photos" => currentScene = "MyPhotos"
    /\ currentView = "video" => sceneAssets[currentScene].video

\* the user has gone from the gallery to the first scene while the refresh
\* of the visit is still in flight
C18_LeftGallery ==
    /\ currentView = "dashboard"
    /\ currentScene = "SmartBrick1"
    /\ pollReqs = <<>>
    /\ photoReqs = <<[st |-> "sent", data |-> <<>>]>>

\* C20: the Fullscreen view is never reached.
C20_NeverFullscreen == currentView # "fullscreen"

\* in the gallery with the second photo focused, a refresh asked for
C20_EnterOnFocusedPhoto ==
    /\ currentView = "photos"
    /\ Len(photos) = 2
    /\ focusedPhotoIndex = 1
    /\ lastPhotoCount = 2
    /\ photoReqs = <<[st |-> "sent", data |-> <<>>]>>

\* The event loop under its scheduling: the 2 s interval keeps ticking, a
\* pending timer fires, every request in flight is answered, and every
\* answered request resumes its handler. Nothing obliges the user to press a
\* key, the backend to receive photos, or a request to fail.
Fairness ==
    /\ WF_vars(PollTick)
    /\ WF_vars(HideTimerFire)
    /\ WF_vars(\E i \in 1..Len(photoReqs) : PhotosFetchSettle(i))
    /\ WF_vars(\E i \in 1..Len(photoReqs) : LoggedLoadPhotosComplete(i))
    /\ WF_vars(\E i \in 1..Len(pollReqs) : PollFetchSettle(i))
    /\ WF_vars(\E i \in 1..Len(pollReqs) : LoggedPollComplete(i))

SpecLive == Init /\ [][NextSync]_vars /\ Fairness

\* C19: if from some point on the view stays Photos and no fetch fails (the
\* backend count is bounded and only grows, so it stops changing), then the
\* photos held and lastPhotoCount both come to equal the backend count.
C19_EventualSync ==
    (<>[](currentView = "photos" /\ lastFetch # "failed"))
        => []<>(/\ Len(photos) = Len(backendPhotos)
                /\ lastPhotoCount = Len(backendPhotos))

====
